---- MODULE Spec2Model ----
(***************************************************************************)
(* Model of src/services/sdkmanager.ts: parseList (the three scan loops    *)
(* over the lines of `sdkmanager --list`), parsePackageName, cmpVersions.  *)
(* Strings are sequences of one-character strings, so that split, trim,    *)
(* startsWith, endsWith, the strip regular expression and parseInt are     *)
(* computed character by character as the JavaScript runtime does.         *)
(***************************************************************************)
EXTENDS Integers, Sequences, FiniteSets, TLC

(* ------------------------------------------------------------------ *)
(* Bounds of the explored inputs                                       *)
(* ------------------------------------------------------------------ *)
\* number of lines (or header blocks) that follow the chosen preamble
MaxBody == 4

(* ------------------------------------------------------------------ *)
(* JavaScript values                                                   *)
(* ------------------------------------------------------------------ *)
\* the value `undefined` (an array read past the end); no string equals it
UNDEF == <<"undefined">>

EMPTY == <<>>

WhiteSpace == {" ", "\t", "\r"}

Digits == <<"0", "1", "2", "3", "4", "5", "6", "7", "8", "9">>

IsDigit(c) == \E d \in 1..Len(Digits) : Digits[d] = c

DigitVal(c) == (CHOOSE d \in 1..Len(Digits) : Digits[d] = c) - 1

(* ------------------------------------------------------------------ *)
(* String literals of the source                                       *)
(* ------------------------------------------------------------------ *)
InstalledHeader == <<"I","n","s","t","a","l","l","e","d"," ","p","a","c","k","a","g","e","s",":">>

AvailableHeader == <<"A","v","a","i","l","a","b","l","e"," ","P","a","c","k","a","g","e","s",":">>

UpdatesHeader == <<"A","v","a","i","l","a","b","l","e"," ","U","p","d","a","t","e","s",":">>

FieldSep == <<"|", " ">>

NameSep == <<";">>

NameJoin == <<";", " ">>

VersionSep == <<".">>

\* pointer += 3 after each of the three headers
SkipInstalledRows == 3

SkipAvailableRows == 3

SkipUpdatesRows == 3

(* ------------------------------------------------------------------ *)
(* String.prototype operations                                         *)
(* ------------------------------------------------------------------ *)
startsWith(s, lit) ==
  /\ Len(s) >= Len(lit)
  /\ SubSeq(s, 1, Len(lit)) = lit

endsWith(s, lit) ==
  /\ Len(s) >= Len(lit)
  /\ SubSeq(s, Len(s) - Len(lit) + 1, Len(s)) = lit

\* first position at which sep occurs in s, 0 when it does not occur
IndexOf(s, sep) ==
  LET hits == {i \in 1..(Len(s) - Len(sep) + 1) : SubSeq(s, i, i + Len(sep) - 1) = sep}
  IN  IF hits = {} THEN 0 ELSE CHOOSE i \in hits : \A j \in hits : i <= j

RECURSIVE split(_, _)
split(s, sep) ==
  LET i == IndexOf(s, sep)
  IN  IF i = 0 THEN <<s>>
      ELSE <<SubSeq(s, 1, i - 1)>> \o split(SubSeq(s, i + Len(sep), Len(s)), sep)

RECURSIVE trimStart(_)
trimStart(s) ==
  IF s # EMPTY /\ Head(s) \in WhiteSpace THEN trimStart(Tail(s)) ELSE s

RECURSIVE trimEnd(_)
trimEnd(s) ==
  IF s # EMPTY /\ s[Len(s)] \in WhiteSpace THEN trimEnd(SubSeq(s, 1, Len(s) - 1)) ELSE s

trim(s) == trimEnd(trimStart(s))

RECURSIVE join(_, _)
join(parts, sep) ==
  IF parts = <<>> THEN EMPTY
  ELSE IF Len(parts) = 1 THEN parts[1]
  ELSE parts[1] \o sep \o join(Tail(parts), sep)

\* stdout.split(/\r?\n/): a "\r" directly before the "\n" belongs to the separator
RECURSIVE splitLines(_)
splitLines(s) ==
  LET nl == IndexOf(s, <<"\n">>)
  IN  IF nl = 0 THEN <<s>>
      ELSE LET cut == IF nl > 1 /\ s[nl - 1] = "\r" THEN nl - 2 ELSE nl - 1
           IN  <<SubSeq(s, 1, cut)>> \o splitLines(SubSeq(s, nl + 1, Len(s)))

\* array read: elements[k] with k counted from 0, undefined past the end
At(arr, k) == IF k >= 0 /\ k < Len(arr) THEN arr[k + 1] ELSE UNDEF

\* JavaScript truthiness of a string-or-undefined value
Truthy(v) == v # UNDEF /\ v # EMPTY

(* ------------------------------------------------------------------ *)
(* parseInt(segment, 10)                                               *)
(* ------------------------------------------------------------------ *)
NaN == [nan |-> TRUE, val |-> 0]

Num(n) == [nan |-> FALSE, val |-> n]

\* value of the leading run of decimal digits of s, continuing from acc
RECURSIVE digitRun(_, _)
digitRun(s, acc) ==
  IF s # EMPTY /\ IsDigit(Head(s)) THEN digitRun(Tail(s), 10 * acc + DigitVal(Head(s)))
  ELSE acc

\* leading white space is skipped, a sign is accepted, the digits are read up
\* to the first other character, and no digit at all gives NaN
parseInt(s) ==
  LET t == trimStart(s)
      signed == t # EMPTY /\ Head(t) \in {"+", "-"}
      u == IF signed THEN Tail(t) ELSE t
  IN  IF u = EMPTY \/ ~IsDigit(Head(u)) THEN NaN
      ELSE IF signed /\ Head(t) = "-" THEN Num(0 - digitRun(u, 0))
      ELSE Num(digitRun(u, 0))

\* a - b on numbers: NaN when either operand is NaN
minus(x, y) == IF x.nan \/ y.nan THEN NaN ELSE Num(x.val - y.val)

\* `if (diff)`: NaN and 0 are falsy
TruthyNum(x) == ~x.nan /\ x.val # 0

(* ------------------------------------------------------------------ *)
(* cmpVersions                                                         *)
(* ------------------------------------------------------------------ *)
\* number of "0" characters at the end of s
RECURSIVE trailingZeros(_)
trailingZeros(s) ==
  IF s # EMPTY /\ s[Len(s)] = "0" THEN 1 + trailingZeros(SubSeq(s, 1, Len(s) - 1)) ELSE 0

\* stripZeros with a regular expression that matches nothing
stripZerosNever(s) == s

\* s.replace(/(\.0+)+$/, ''): the whole run of ".0", ".00", ... groups that
\* ends the string is removed
RECURSIVE stripZeros(_)
stripZeros(s) ==
  LET z == trailingZeros(s)
  IN  IF z >= 1 /\ Len(s) > z /\ s[Len(s) - z] = "."
      THEN stripZeros(SubSeq(s, 1, Len(s) - z - 1))
      ELSE s

\* the for loop of cmpVersions from index i (counted from 0)
RECURSIVE cmpLoop(_, _, _, _)
cmpLoop(segmentsA, segmentsB, i, l) ==
  IF i < l
  THEN LET diff == minus(parseInt(segmentsA[i + 1]), parseInt(segmentsB[i + 1]))
       IN  IF TruthyNum(diff) THEN diff.val
           ELSE cmpLoop(segmentsA, segmentsB, i + 1, l)
  ELSE Len(segmentsA) - Len(segmentsB)

\* a.replace / b.replace on undefined is a TypeError
cmpVersionsThrows(a, b) == a = UNDEF \/ b = UNDEF

cmpVersions(a, b) ==
  LET segmentsA == split(stripZeros(a), VersionSep)
      segmentsB == split(stripZeros(b), VersionSep)
      l == IF Len(segmentsA) < Len(segmentsB) THEN Len(segmentsA) ELSE Len(segmentsB)
  IN  cmpLoop(segmentsA, segmentsB, 0, l)

(* ------------------------------------------------------------------ *)
(* parsePackageName and the record parser                              *)
(* ------------------------------------------------------------------ *)
\* returns <<name, category>>
parsePackageName(name) ==
  LET names == split(name, NameSep)
  IN  << IF Truthy(At(names, 1)) THEN join(Tail(names), NameJoin) ELSE names[1],
         names[1] >>

\* lines[pointer].split('| ').map(e => e.trim())
Elements(line) ==
  LET raw == split(line, FieldSep)
  IN  [k \in 1..Len(raw) |-> trim(raw[k])]

Installed == "Installed"

Available == "Available"

Updateable == "Updateable"

\* new Package() filled from the elements of one line
NewPackage(st, elements) ==
  LET nc == parsePackageName(elements[1])
  IN  [ state       |-> st,
        rawName     |-> elements[1],
        name        |-> nc[1],
        category    |-> nc[2],
        version     |-> At(elements, 1),
        description |-> At(elements, 2),
        details     |-> UNDEF ]

\* packages.findIndex(pkg => pkg.rawName === key), counted from 0, -1 if none
findIndex(pkgs, key) ==
  LET hits == {i \in 1..Len(pkgs) : pkgs[i].rawName = key}
  IN  IF hits = {} THEN -1 ELSE (CHOOSE i \in hits : \A j \in hits : i <= j) - 1

\* Merge with the comparison written <= 0: an equal version counts as an update
MergeOnEqual(pkgs, index, rv) ==
  LET p == pkgs[index + 1]
  IN  IF cmpVersions(p.version, rv) <= 0
      THEN [pkgs EXCEPT ![index + 1] =
              [p EXCEPT !.state = Updateable,
                        !.version = p.version \o <<"(">> \o rv \o <<")">>]]
      ELSE pkgs

\* the "Already installed" branch: packages after the comparison with rv
Merge(pkgs, index, rv) ==
  LET p == pkgs[index + 1]
  IN  IF cmpVersions(p.version, rv) < 0
      THEN [pkgs EXCEPT ![index + 1] =
              [p EXCEPT !.state = Updateable,
                        !.version = p.version \o <<"(">> \o rv \o <<")">>]]
      ELSE pkgs

(* ------------------------------------------------------------------ *)
(* Inputs: the text printed by `sdkmanager --list`                     *)
(* ------------------------------------------------------------------ *)
TitleRow == <<" "," ","P","a","t","h"," ","|"," ","V","e","r","s","i","o","n">>

RuleRow == <<" "," ","-","-","-","-","-","-","-">>

NoticeLine == <<"L","o","a","d","i","n","g",".",".",".">> \o <<"\r">>

PrefixedHeader == <<"I","n","f","o",":"," ">> \o InstalledHeader

RecA1 == <<" "," ","a"," ","|"," ","1"," ","|"," ","d">>

RecA2 == <<"a","|"," ","2",".","0","|"," ","d">>

RecAShort == <<" "," ","a">>

RecB == <<"b",";","x"," ","|"," ","1",".","0"," ","|"," ","e"," ","|"," ","b","/","x">>

\* what precedes the body: nothing, a bare header, the header with its two
\* rows, and the same after a notice line that ends with a carriage return
Preambles ==
  { <<>>,
    <<InstalledHeader>>,
    <<InstalledHeader, TitleRow, RuleRow>>,
    <<NoticeLine, PrefixedHeader, TitleRow, RuleRow>> }

\* the body is made of these blocks of lines
BodyBlocks ==
  { <<EMPTY>>,
    <<AvailableHeader, TitleRow, RuleRow>>,
    <<UpdatesHeader>>,
    <<RecA1>>, <<RecA2>>, <<RecAShort>>, <<RecB>> }

RECURSIVE flatten(_)
flatten(blocks) ==
  IF blocks = <<>> THEN <<>> ELSE Head(blocks) \o flatten(Tail(blocks))

Bodies == UNION {[1..n -> BodyBlocks] : n \in 0..MaxBody}

Inputs == {join(pre \o flatten(body), <<"\n">>) : pre \in Preambles, body \in Bodies}

(* ------------------------------------------------------------------ *)
(* parseList as a state machine: one action per loop iteration         *)
(* ------------------------------------------------------------------ *)
VARIABLES
  stdout,    \* the argument of parseList
  lines,     \* stdout.split(/\r?\n/)
  pointer,   \* the scan cursor, counted from 0
  packages,  \* the catalog under construction
  pc,        \* "start", "skip", "installed", "available", "done", "thrown"
  thrown,    \* the expression whose evaluation threw, "" while none did
  parsed,    \* history: the lines handed to the record parser, in order
  iterations, \* history: the loop iterations this call of parseList has begun
  args,      \* the arguments of a direct call of cmpVersions, parsePackageName or sort
  ret,       \* what that call returned
  earlier    \* history: the outcomes of the parseList calls completed before this one

vars == <<stdout, lines, pointer, packages, pc, thrown, parsed, iterations, args, ret, earlier>>

\* a run of parseList involves no direct call of the helpers
NoCall == args = <<>> /\ ret = <<>>

Init ==
  /\ stdout \in Inputs
  /\ lines = <<>>
  /\ pointer = 0
  /\ packages = <<>>
  /\ pc = "start"
  /\ thrown = ""
  /\ parsed = <<>>
  /\ iterations = 0
  /\ NoCall
  /\ earlier = <<>>

\* Begin with the catalog kept from the call before (a catalog that is not a
\* local of parseList)
BeginKeepCatalog ==
  /\ pc = "start"
  /\ lines' = splitLines(stdout)
  /\ pointer' = 0
  /\ packages' = packages
  /\ pc' = "skip"
  /\ iterations' = 0
  /\ UNCHANGED <<args, ret, earlier, stdout, thrown, parsed>>

\* const packages = []; const lines = stdout.split(...); let pointer = 0
Begin ==
  /\ pc = "start"
  /\ lines' = splitLines(stdout)
  /\ pointer' = 0
  /\ packages' = <<>>
  /\ pc' = "skip"
  /\ iterations' = 0
  /\ UNCHANGED <<args, ret, earlier, stdout, thrown, parsed>>

\* one iteration of the first loop
SkipStep ==
  /\ pc = "skip"
  /\ pointer < Len(lines)
  /\ IF endsWith(lines[pointer + 1], InstalledHeader)
     THEN /\ pointer' = pointer + SkipInstalledRows
          /\ pc' = "installed"
     ELSE /\ pointer' = pointer + 1
          /\ pc' = pc
  /\ iterations' = iterations + 1
  /\ UNCHANGED <<args, ret, earlier, stdout, lines, packages, thrown, parsed>>

\* SkipEnd with the cursor rewound to line 0 when no header was found
SkipEndRewind ==
  /\ pc = "skip"
  /\ pointer >= Len(lines)
  /\ pointer' = 0
  /\ pc' = "installed"
  /\ UNCHANGED <<args, ret, earlier, stdout, lines, packages, thrown, parsed, iterations>>

\* the first loop ends on its condition: no header was found
SkipEnd ==
  /\ pc = "skip"
  /\ pointer >= Len(lines)
  /\ pc' = "installed"
  /\ UNCHANGED <<args, ret, earlier, stdout, lines, pointer, packages, thrown, parsed, iterations>>

\* the cursor after the "skip blank" statement of the installed loop
InstalledCursor(ls, ptr) == IF ls[ptr + 1] = EMPTY THEN ptr + 1 ELSE ptr

\* one iteration of the installed loop
InstalledStep ==
  /\ pc = "installed"
  /\ pointer < Len(lines)
  /\ LET p1 == InstalledCursor(lines, pointer)
     IN  IF At(lines, p1) = UNDEF
         THEN \* lines[pointer] is undefined: .startsWith throws
              /\ pc' = "thrown"
              /\ thrown' = "lines[pointer].startsWith"
              /\ pointer' = p1
              /\ UNCHANGED <<packages, parsed>>
         ELSE IF startsWith(lines[p1 + 1], AvailableHeader)
         THEN /\ pointer' = p1 + SkipAvailableRows
              /\ pc' = "available"
              /\ UNCHANGED <<packages, thrown, parsed>>
         ELSE /\ packages' = Append(packages, NewPackage(Installed, Elements(lines[p1 + 1])))
              /\ parsed' = Append(parsed, [line |-> p1, section |-> "installed"])
              /\ pointer' = p1 + 1
              /\ UNCHANGED <<pc, thrown>>
  /\ iterations' = iterations + 1
  /\ UNCHANGED <<args, ret, earlier, stdout, lines>>

\* the installed loop ends on its condition
InstalledEnd ==
  /\ pc = "installed"
  /\ pointer >= Len(lines)
  /\ pc' = "available"
  /\ UNCHANGED <<args, ret, earlier, stdout, lines, pointer, packages, thrown, parsed, iterations>>

\* AvailableBlank with the cursor put back by the skip (pointer -= 1; continue)
AvailableBlankStay(ptr) == (ptr - 1) + 1

\* the cursor after an iteration of the available loop that met a blank line:
\* pointer += 1; continue; and then the loop's own pointer += 1
AvailableBlank(ptr) == (ptr + 1) + 1

\* one iteration of the available loop
AvailableStep ==
  /\ pc = "available"
  /\ pointer < Len(lines)
  /\ IF lines[pointer + 1] = EMPTY
     THEN /\ pointer' = AvailableBlank(pointer)
          /\ UNCHANGED <<packages, pc, thrown, parsed>>
     ELSE IF startsWith(lines[pointer + 1], UpdatesHeader)
     THEN /\ pointer' = pointer + SkipUpdatesRows
          /\ pc' = "done"
          /\ UNCHANGED <<packages, thrown, parsed>>
     ELSE LET elements == Elements(lines[pointer + 1])
              index == findIndex(packages, elements[1])
              rv == At(elements, 1)
          IN  /\ parsed' = Append(parsed, [line |-> pointer, section |-> "available"])
              /\ IF index = -1
                 THEN /\ packages' = Append(packages, NewPackage(Available, elements))
                      /\ pointer' = pointer + 1
                      /\ UNCHANGED <<pc, thrown>>
                 ELSE IF cmpVersionsThrows(packages[index + 1].version, rv)
                 THEN /\ pc' = "thrown"
                      /\ thrown' = "cmpVersions: replace"
                      /\ UNCHANGED <<packages, pointer>>
                 ELSE /\ packages' = Merge(packages, index, rv)
                      /\ pointer' = pointer + 1
                      /\ UNCHANGED <<pc, thrown>>
  /\ iterations' = iterations + 1
  /\ UNCHANGED <<args, ret, earlier, stdout, lines>>

\* the available loop ends on its condition: return packages
AvailableEnd ==
  /\ pc = "available"
  /\ pointer >= Len(lines)
  /\ pc' = "done"
  /\ UNCHANGED <<args, ret, earlier, stdout, lines, pointer, packages, thrown, parsed, iterations>>

Next ==
  \/ Begin
  \/ SkipStep
  \/ SkipEnd
  \/ InstalledStep
  \/ InstalledEnd
  \/ AvailableStep
  \/ AvailableEnd

Spec == Init /\ [][Next]_vars

(* ------------------------------------------------------------------ *)
(* The sections of the input, read off the text                        *)
(* ------------------------------------------------------------------ *)
Min(S) == CHOOSE x \in S : \A y \in S : x <= y

\* index (from 0) of the first line at or after `from` that satisfies Test,
\* the number of lines when there is none
FirstLine(ls, from, Test(_)) ==
  LET hits == {i \in from..(Len(ls) - 1) : Test(ls[i + 1])}
  IN  IF hits = {} THEN Len(ls) ELSE Min(hits)

IsInstalledHeader(l) == endsWith(l, InstalledHeader)

IsAvailableHeader(l) == startsWith(l, AvailableHeader)

IsUpdatesHeader(l) == startsWith(l, UpdatesHeader)

\* the lines of the input, as Begin split them (no action changes them after)
InputLines == lines

\* first record row of the installed section: three lines after the header
InstalledFrom == FirstLine(InputLines, 0, IsInstalledHeader) + 3

\* the line that ends the installed section
AvailableHeaderAt == FirstLine(InputLines, InstalledFrom, IsAvailableHeader)

\* first record row of the available section
AvailableFrom == AvailableHeaderAt + 3

\* the line that ends the available section
UpdatesHeaderAt == FirstLine(InputLines, AvailableFrom, IsUpdatesHeader)

\* the non-blank lines of the two sections (indices from 0)
InstalledLines ==
  {i \in InstalledFrom..(AvailableHeaderAt - 1) :
     i < Len(InputLines) /\ InputLines[i + 1] # EMPTY}

AvailableLines ==
  {i \in AvailableFrom..(UpdatesHeaderAt - 1) :
     i < Len(InputLines) /\ InputLines[i + 1] # EMPTY}

RawNameOf(i) == Elements(InputLines[i + 1])[1]

VersionOf(i) == At(Elements(InputLines[i + 1]), 1)

FieldCount(i) == Len(Elements(InputLines[i + 1]))

\* "v compares less than w": the comparator is defined on both and negative
Less(v, w) == ~cmpVersionsThrows(v, w) /\ cmpVersions(v, w) < 0

Entries == {packages[k] : k \in 1..Len(packages)}

Returned == pc = "done"

(* ------------------------------------------------------------------ *)
(* Claims                                                              *)
(* ------------------------------------------------------------------ *)

\* C1: parseList never raises, whatever the input and wherever it ends
\* (also when a blank line is the last line of the installed section).
C1_NeverRaises == pc # "thrown"

\* C2: a record line with fewer than three fields never makes parseList
\* raise, also when its rawName occurs in the other section and the merge
\* compares the absent version; its record is in the catalog.
C2_ShortLineTolerated ==
  \A k \in 1..Len(parsed) :
    FieldCount(parsed[k].line) < 3 =>
      /\ thrown # "cmpVersions: replace"
      /\ \E e \in Entries : e.rawName = RawNameOf(parsed[k].line)

\* C3: in every returned catalog no two entries have the same rawName.
C3_UniqueRawName ==
  Returned =>
    \A i, j \in 1..Len(packages) :
      packages[i].rawName = packages[j].rawName => i = j

\* C4: in every returned catalog an Updateable entry has a rawName that
\* appeared in both sections, with an available version that compares
\* greater than the installed version.
C4_UpdateableInBothSections ==
  Returned =>
    \A e \in Entries :
      e.state = Updateable =>
        \E j \in InstalledLines, i \in AvailableLines :
          /\ RawNameOf(j) = e.rawName
          /\ RawNameOf(i) = e.rawName
          /\ Less(VersionOf(j), VersionOf(i))

\* C5: in every returned catalog an Installed entry comes from the installed
\* section and no line of the available section with its rawName carries a
\* version greater than its version.
C5_InstalledNotOutdated ==
  Returned =>
    \A e \in Entries :
      e.state = Installed =>
        /\ \E j \in InstalledFrom..(AvailableHeaderAt - 1) : RawNameOf(j) = e.rawName
        /\ \A i \in AvailableLines :
             RawNameOf(i) = e.rawName => ~Less(e.version, VersionOf(i))

\* C6: in every returned catalog the version of an Updateable entry of an
\* installed rawName is the installed version v followed by one single
\* parenthesised candidate "(w)" of an available line of that rawName.
C6_VersionIsInstalledThenCandidate ==
  Returned =>
    \A e \in Entries :
      (e.state = Updateable /\ \E j \in InstalledLines : RawNameOf(j) = e.rawName) =>
        \E j \in InstalledLines, i \in AvailableLines :
          /\ RawNameOf(j) = e.rawName
          /\ RawNameOf(i) = e.rawName
          /\ VersionOf(j) # UNDEF
          /\ VersionOf(i) # UNDEF
          /\ e.version = VersionOf(j) \o <<"(">> \o VersionOf(i) \o <<")">>

\* the available loop is about to merge a line whose rawName is in the
\* catalog and whose candidate version the entry's version is not less than
NoDowngradeCase ==
  /\ pc = "available"
  /\ pointer < Len(lines)
  /\ lines[pointer + 1] # EMPTY
  /\ ~startsWith(lines[pointer + 1], UpdatesHeader)
  /\ LET elements == Elements(lines[pointer + 1])
         index == findIndex(packages, elements[1])
     IN  /\ index # -1
         /\ ~cmpVersionsThrows(packages[index + 1].version, At(elements, 1))
         /\ cmpVersions(packages[index + 1].version, At(elements, 1)) >= 0

\* C7: no downgrade: processing an available line whose rawName is in the
\* catalog, with the entry's version not less than the candidate, leaves the
\* whole catalog unchanged (no field changes, nothing is added).
C7_NoDowngrade == [][NoDowngradeCase => packages' = packages]_vars

\* an Installed entry has just met an available line with a smaller version
C7_Witness ==
  /\ pc \in {"available", "done"}
  /\ parsed # <<>>
  /\ LET last == parsed[Len(parsed)]
     IN  /\ last.section = "available"
         /\ last.line = pointer - 1
         /\ \E e \in Entries :
              /\ e.rawName = RawNameOf(last.line)
              /\ e.state = Installed
              /\ Less(VersionOf(last.line), e.version)

\* C8: every non-blank line of the available section (after the rows skipped
\* behind "Available Packages:", before "Available Updates:") is parsed and
\* merged, also when it directly follows a blank line.
C8_EveryAvailableLineParsed ==
  Returned =>
    \A i \in AvailableLines :
      \E k \in 1..Len(parsed) : parsed[k] = [line |-> i, section |-> "available"]

\* C9: no line at or after the first "Available Updates:" line of the
\* available section is parsed into a record.
C9_NothingParsedAfterUpdates ==
  \A k \in 1..Len(parsed) :
    parsed[k].section = "available" => parsed[k].line < UpdatesHeaderAt

\* no line ends with "Installed packages:", none starts with "Available Packages:"
NoHeaders ==
  \A k \in 1..Len(InputLines) :
    ~IsInstalledHeader(InputLines[k]) /\ ~IsAvailableHeader(InputLines[k])

\* C10: for the empty input and for every input with neither header,
\* parseList does not raise and returns the empty catalog.
C10_NoHeadersEmptyCatalog ==
  (pc # "start" /\ NoHeaders) => (pc # "thrown" /\ packages = <<>> /\ parsed = <<>>)

\* a returned parse of a headerless input that holds record lines
C10_Witness ==
  /\ Returned
  /\ NoHeaders
  /\ \E k \in 1..Len(lines) : lines[k] = RecA1
  /\ \E k \in 1..Len(lines) : lines[k] = EMPTY

(* ------------------------------------------------------------------ *)
(* Direct calls of cmpVersions                                         *)
(* ------------------------------------------------------------------ *)
\* most segments of a generated version string
MaxSegs == 3

\* the segment values of the generated version strings
SegValues == {0, 1, 9, 10}

RECURSIVE IntToStr(_)
IntToStr(n) ==
  IF n < 10 THEN <<Digits[n + 1]>>
  ELSE IntToStr(n \div 10) \o <<Digits[(n % 10) + 1]>>

FormatVersion(segs) == join([k \in 1..Len(segs) |-> IntToStr(segs[k])], VersionSep)

VersionSeqs == UNION {[1..n -> SegValues] : n \in 1..MaxSegs}

VersionStrings == {FormatVersion(v) : v \in VersionSeqs}

\* the variables of parseList while a helper is called directly
NoParse ==
  /\ stdout = EMPTY
  /\ lines = <<>>
  /\ pointer = 0
  /\ thrown = ""
  /\ parsed = <<>>
  /\ iterations = 0
  /\ earlier = <<>>

InitCmp ==
  /\ NoParse
  /\ packages = <<>>
  /\ pc = "cmpVersions"
  /\ args \in VersionStrings \X VersionStrings
  /\ ret = <<>>

CallCmpVersions ==
  /\ pc = "cmpVersions"
  /\ ~cmpVersionsThrows(args[1], args[2])
  /\ ret' = cmpVersions(args[1], args[2])
  /\ pc' = "returned"
  /\ UNCHANGED <<stdout, lines, pointer, packages, thrown, parsed, iterations, args, earlier>>

NextCmp == CallCmpVersions

SpecCmp == InitCmp /\ [][NextCmp]_vars

\* the reference of claim C11, on sequences of numbers
RECURSIVE StripZeroSegments(_)
StripZeroSegments(q) ==
  IF q # <<>> /\ q[Len(q)] = 0 THEN StripZeroSegments(SubSeq(q, 1, Len(q) - 1)) ELSE q

RECURSIVE FirstDifference(_, _, _)
FirstDifference(x, y, k) ==
  IF k > Len(x) \/ k > Len(y) THEN Len(x) - Len(y)
  ELSE IF x[k] # y[k] THEN x[k] - y[k]
  ELSE FirstDifference(x, y, k + 1)

ReferenceCompare(x, y) ==
  FirstDifference(StripZeroSegments(x), StripZeroSegments(y), 1)

Sign(n) == IF n < 0 THEN -1 ELSE IF n > 0 THEN 1 ELSE 0

\* the numbers a dotted version string is made of
SegmentsOf(str) ==
  LET parts == split(str, VersionSep)
  IN  [k \in 1..Len(parts) |-> digitRun(parts[k], 0)]

\* C11: on dotted strings of non-negative decimal integers cmpVersions has
\* the sign of the reference: trailing zero segments stripped, numeric
\* pairwise comparison up to the shorter length, then the segment counts.
C11_CmpMatchesReference ==
  pc = "returned" =>
    Sign(ret) = Sign(ReferenceCompare(SegmentsOf(args[1]), SegmentsOf(args[2])))

\* cmp("1.10", "1.9") has returned a positive number
C11_Witness ==
  /\ pc = "returned"
  /\ args = << <<"1", ".", "1", "0">>, <<"1", ".", "9">> >>
  /\ ret > 0

(* ------------------------------------------------------------------ *)
(* sort                                                                *)
(* ------------------------------------------------------------------ *)
\* most entries of a generated catalog
MaxCatalog == 3

UpperCase == <<"A","B","C","D","E","F","G","H","I","J","K","L","M","N","O","P","Q","R","S","T","U","V","W","X","Y","Z">>

LowerCase == <<"a","b","c","d","e","f","g","h","i","j","k","l","m","n","o","p","q","r","s","t","u","v","w","x","y","z">>

\* the characters of the model in the order of their UTF-16 code units
CodeOrder ==
  <<" ","(",")","-",".","/","0","1","2","3","4","5","6","7","8","9",":",";">> \o UpperCase \o LowerCase \o <<"|">>

CharCode(c) == CHOOSE k \in 1..Len(CodeOrder) : CodeOrder[k] = c

toLowerCase(str) ==
  [k \in 1..Len(str) |->
     IF \E u \in 1..Len(UpperCase) : UpperCase[u] = str[k]
     THEN LowerCase[CHOOSE u \in 1..Len(UpperCase) : UpperCase[u] = str[k]]
     ELSE str[k]]

\* x < y on strings: the first differing code unit decides, a proper prefix is less
RECURSIVE StrLess(_, _)
StrLess(x, y) ==
  IF y = EMPTY THEN FALSE
  ELSE IF x = EMPTY THEN TRUE
  ELSE IF Head(x) # Head(y) THEN CharCode(Head(x)) < CharCode(Head(y))
  ELSE StrLess(Tail(x), Tail(y))

\* the default parameter: order = 'desc' when the argument is undefined
OrDefault(order) == IF order = "undefined" THEN "desc" ELSE order

\* the comparator with the toLowerCase calls left out
compareFnCaseSensitive(a, b, order) ==
  (IF StrLess(a.rawName, b.rawName) THEN -1 ELSE 1) * (IF order = "asc" THEN 1 ELSE -1)

\* the comparator handed to Array.prototype.sort
compareFn(a, b, order) ==
  LET nameA == toLowerCase(a.rawName)
      nameB == toLowerCase(b.rawName)
  IN  (IF StrLess(nameA, nameB) THEN -1 ELSE 1) * (IF order = "asc" THEN 1 ELSE -1)

Rearrangements(n) == {f \in [1..n -> 1..n] : \A i, j \in 1..n : f[i] = f[j] => i = j}

\* Array.prototype.sort: the array is reordered in place; the order of two
\* elements is one that an answer of the comparator supports (for equal keys
\* the comparator is not consistent and either order can come out)
SortOutcomes(pkgs, order) ==
  { r \in {[i \in 1..Len(pkgs) |-> pkgs[f[i]]] : f \in Rearrangements(Len(pkgs))} :
      \A i, j \in 1..Len(r) :
        i < j => (compareFn(r[i], r[j], order) < 0 \/ compareFn(r[j], r[i], order) > 0) }

EntryPool ==
  { NewPackage(Installed, << <<"b">>, <<"1">>, <<"d">> >>),
    NewPackage(Available, << <<"A">>, <<"2">>, <<"d">> >>),
    [NewPackage(Updateable, << <<"c">>, <<"1">>, <<"d">> >>) EXCEPT !.version = <<"1", "(", "2", ")">>],
    NewPackage(Installed, << <<"a">>, <<"1">>, <<"e">> >>),
    NewPackage(Available, << <<"B", ";", "x">>, <<"1">> >>) }

Catalogs == UNION {[1..n -> EntryPool] : n \in 0..MaxCatalog}

Orders == {"asc", "desc", "undefined"}

InitSort ==
  /\ NoParse
  /\ packages \in Catalogs
  /\ pc = "sort"
  /\ \E order \in Orders : args = <<packages, order>>
  /\ ret = <<>>

\* return packages.sort(...): the argument array itself is sorted and returned
CallSort ==
  /\ pc = "sort"
  /\ packages' \in SortOutcomes(packages, OrDefault(args[2]))
  /\ ret' = packages'
  /\ pc' = "returned"
  /\ UNCHANGED <<stdout, lines, pointer, thrown, parsed, iterations, args, earlier>>

NextSort == CallSort

SpecSort == InitSort /\ [][NextSort]_vars

SortKey(e) == toLowerCase(e.rawName)

Reverse(q) == [i \in 1..Len(q) |-> q[Len(q) + 1 - i]]

DistinctKeys(q) == \A i, j \in 1..Len(q) : SortKey(q[i]) = SortKey(q[j]) => i = j

\* C12: sort returns a permutation of the entries it was given (every field
\* unchanged) with lower-cased rawNames non-decreasing for 'asc' and
\* non-increasing otherwise ('desc' and no direction given); for pairwise
\* distinct keys the descending result is the reverse of the ascending one.
C12_SortedPermutation ==
  pc = "returned" =>
    LET before == args[1]
        order == args[2]
    IN  /\ \E f \in Rearrangements(Len(before)) :
             ret = [i \in 1..Len(before) |-> before[f[i]]]
        /\ \A i \in 1..(Len(ret) - 1) :
             IF order = "asc"
             THEN ~StrLess(SortKey(ret[i + 1]), SortKey(ret[i]))
             ELSE ~StrLess(SortKey(ret[i]), SortKey(ret[i + 1]))
        /\ (order # "asc" /\ DistinctKeys(before)) =>
             \A r \in SortOutcomes(before, "asc") : ret = Reverse(r)

\* ["b", "A", "c"] sorted with no direction given came out as c, b, A
C12_Witness ==
  /\ pc = "returned"
  /\ args[2] = "undefined"
  /\ [i \in 1..Len(args[1]) |-> args[1][i].rawName] = << <<"b">>, <<"A">>, <<"c">> >>
  /\ [i \in 1..Len(ret) |-> ret[i].rawName] = << <<"c">>, <<"b">>, <<"A">> >>

\* C13: sort has no side effect: after it returns, the sequence the caller
\* passed in holds the same entries in the same order as before the call.
C13_ArgumentUntouched ==
  pc = "returned" => packages = args[1]

(* ------------------------------------------------------------------ *)
(* Direct calls of parsePackageName                                    *)
(* ------------------------------------------------------------------ *)
\* most characters of a generated rawName
MaxNameLen == 4

NameChars == {"a", "b", ";"}

RawNames == UNION {[1..n -> NameChars] : n \in 0..MaxNameLen}

InitName ==
  /\ NoParse
  /\ packages = <<>>
  /\ pc = "parsePackageName"
  /\ \E name \in RawNames : args = <<name>>
  /\ ret = <<>>

\* [p.name, p.category] = parsePackageName(p.rawName)
CallParsePackageName ==
  /\ pc = "parsePackageName"
  /\ ret' = parsePackageName(args[1])
  /\ pc' = "returned"
  /\ UNCHANGED <<stdout, lines, pointer, packages, thrown, parsed, iterations, args, earlier>>

NextName == CallParsePackageName

SpecName == InitName /\ [][NextName]_vars

\* the text from the first ";" on with every ";" turned into the text "; ",
\* less the leading "; ": the remaining segments joined with "; "
RECURSIVE SpreadSeparators(_)
SpreadSeparators(str) ==
  IF str = EMPTY THEN EMPTY
  ELSE IF Head(str) = ";" THEN <<";", " ">> \o SpreadSeparators(Tail(str))
  ELSE <<Head(str)>> \o SpreadSeparators(Tail(str))

\* C14: category is the first ";"-separated segment of rawName; name is the
\* remaining segments joined with "; " whenever there is a remaining segment
\* (also an empty one, as in "a;" and "a;;b"), and the first segment when
\* rawName has a single segment.
C14_NameAndCategory ==
  pc = "returned" =>
    LET rawName == args[1]
        semi == IndexOf(rawName, <<";">>)
        first == IF semi = 0 THEN rawName ELSE SubSeq(rawName, 1, semi - 1)
        rest == SubSeq(rawName, semi + 1, Len(rawName))
    IN  /\ ret[2] = first
        /\ ret[1] = IF semi = 0 THEN first ELSE SpreadSeparators(rest)

(* ------------------------------------------------------------------ *)
(* Two calls of parseList on the same text                             *)
(* ------------------------------------------------------------------ *)
\* what a completed call gave its caller: the catalog, or the exception
Outcome ==
  IF pc = "done" THEN [how |-> "returned", catalog |-> packages]
  ELSE [how |-> "threw", catalog |-> <<>>]

\* the caller keeps the outcome and calls parseList(stdout) again; the new
\* call's locals are the ones Begin creates
CallAgain ==
  /\ pc \in {"done", "thrown"}
  /\ earlier = <<>>
  /\ earlier' = <<Outcome>>
  /\ pc' = "start"
  /\ thrown' = ""
  /\ parsed' = <<>>
  /\ UNCHANGED <<stdout, lines, pointer, packages, iterations, args, ret>>

NextTwice ==
  \/ Begin
  \/ SkipStep
  \/ SkipEnd
  \/ InstalledStep
  \/ InstalledEnd
  \/ AvailableStep
  \/ AvailableEnd
  \/ CallAgain

SpecTwice == Init /\ [][NextTwice]_vars

\* C15: the second call of parseList on the same input ends as the first
\* did, with a catalog equal by value (length, order, every field): nothing
\* is carried from one call to the next.
C15_SecondCallEqualsFirst ==
  (earlier # <<>> /\ pc \in {"done", "thrown"}) => Outcome = earlier[1]

\* a second call has returned a catalog with a merged (Updateable) entry
C15_Witness ==
  /\ earlier # <<>>
  /\ pc = "done"
  /\ Len(packages) >= 2
  /\ \E e \in Entries : e.state = Updateable

(* ------------------------------------------------------------------ *)
(* Further claims about one call of parseList                          *)
(* ------------------------------------------------------------------ *)
NoInstalledHeader == \A k \in 1..Len(lines) : ~IsInstalledHeader(lines[k])

\* C16: when no line ends with "Installed packages:" the installed section
\* is empty and the available scan starts at line 0: no entry is Installed,
\* and every non-blank line from line 0 up to the first line starting with
\* "Available Updates:" is scanned as an available line and is in the catalog.
C16_AvailableScanFromLineZero ==
  (Returned /\ NoInstalledHeader) =>
    /\ \A e \in Entries : e.state # Installed
    /\ \A i \in 0..(FirstLine(lines, 0, IsUpdatesHeader) - 1) :
         lines[i + 1] # EMPTY =>
           /\ \E k \in 1..Len(parsed) : parsed[k] = [line |-> i, section |-> "available"]
           /\ \E e \in Entries : e.rawName = RawNameOf(i)

\* C16 as amended: when no line ends with "Installed packages:" the first
\* loop leaves the cursor at the end of the input, so neither section is
\* scanned: parseList does not raise, no entry is Installed, no line is
\* parsed as an available line and the returned catalog is empty.
C16_NoInstalledHeaderNothingScanned ==
  (pc \notin {"start", "skip"} /\ NoInstalledHeader) =>
    /\ pc # "thrown"
    /\ pointer = Len(lines)
    /\ parsed = <<>>
    /\ packages = <<>>

\* a returned parse of a text that has the "Available Packages:" block and a
\* record line behind it, but no "Installed packages:" line
C16_Witness ==
  /\ Returned
  /\ NoInstalledHeader
  /\ \E k \in 1..(Len(lines) - 3) :
       /\ IsAvailableHeader(lines[k])
       /\ lines[k + 3] = RecA1

(* ------------------------------------------------------------------ *)
(* cmpVersions as an ordering                                          *)
(* ------------------------------------------------------------------ *)
\* most segments of the strings compared three at a time
MaxOrderSegs == 2

\* the empty string of an empty field, and dotted strings over 0, 1, 2
OrderStrings ==
  {EMPTY} \cup {FormatVersion(v) : v \in UNION {[1..n -> {0, 1, 2}] : n \in 1..MaxOrderSegs}}

InitOrder ==
  /\ NoParse
  /\ packages = <<>>
  /\ pc = "cmpVersions"
  /\ args \in OrderStrings \X OrderStrings \X OrderStrings
  /\ ret = <<>>

\* the comparisons of a, b, c that the ordering laws are about
CallCmpVersionsOnThree ==
  /\ pc = "cmpVersions"
  /\ ret' = [ ab |-> cmpVersions(args[1], args[2]),
              ba |-> cmpVersions(args[2], args[1]),
              bc |-> cmpVersions(args[2], args[3]),
              ac |-> cmpVersions(args[1], args[3]),
              aa |-> cmpVersions(args[1], args[1]) ]
  /\ pc' = "returned"
  /\ UNCHANGED <<stdout, lines, pointer, packages, thrown, parsed, iterations, args, earlier>>

NextOrder == CallCmpVersionsOnThree

SpecOrder == InitOrder /\ [][NextOrder]_vars

\* C17: cmpVersions is a total ordering over the strings that reach it
\* (dotted numeric strings and the empty string): cmp(a, b) and cmp(b, a)
\* have opposite signs, cmp(a, a) = 0, and cmp(a, b) <= 0 with cmp(b, c) <= 0
\* implies cmp(a, c) <= 0.
C17_TotalOrdering ==
  pc = "returned" =>
    /\ Sign(ret.ab) = 0 - Sign(ret.ba)
    /\ ret.aa = 0
    /\ (ret.ab <= 0 /\ ret.bc <= 0) => ret.ac <= 0

(* ------------------------------------------------------------------ *)
(* Order of the catalog, the lines parsed, the cursor                  *)
(* ------------------------------------------------------------------ *)
RawNamesIn(pkgs) == [k \in 1..Len(pkgs) |-> pkgs[k].rawName]

\* the rawNames in encounter order: one per installed line parsed, then one
\* per rawName first met on an available line
RECURSIVE EncounterOrder(_, _)
EncounterOrder(log, acc) ==
  IF log = <<>> THEN acc
  ELSE LET name == RawNameOf(Head(log).line)
       IN  IF Head(log).section = "available" /\ \E k \in 1..Len(acc) : acc[k] = name
           THEN EncounterOrder(Tail(log), acc)
           ELSE EncounterOrder(Tail(log), Append(acc, name))

\* the entries are in encounter order
InEncounterOrder == RawNamesIn(packages) = EncounterOrder(parsed, <<>>)

\* every Installed or Updateable entry precedes every Available entry
InstalledBeforeAvailable ==
  \A i, j \in 1..Len(packages) :
    (packages[i].state = Available /\ packages[j].state \in {Installed, Updateable}) => j < i

\* C18: the catalog is built append-only in encounter order (installed
\* entries in line order, then the new available entries in the order of
\* their first lines), so every Installed or Updateable entry precedes every
\* Available entry.
C18_EncounterOrderAndStates ==
  Returned => (InEncounterOrder /\ InstalledBeforeAvailable)

\* C19: only non-header, non-blank lines are handed to the record parser:
\* no entry is created from a blank line (also when two blank lines follow
\* each other in the installed section) nor from a line starting with
\* "Available Packages:" or "Available Updates:".
C19_OnlyRecordLinesParsed ==
  \A k \in 1..Len(parsed) :
    LET l == lines[parsed[k].line + 1]
    IN  /\ l # EMPTY
        /\ ~IsAvailableHeader(l)
        /\ ~IsUpdatesHeader(l)

\* an iteration of one of the three scan loops runs in this step
LoopIteration == iterations' = iterations + 1

\* the lines handed to the record parser have strictly ascending numbers:
\* none is parsed twice, in one section or in both
ParsedAscending ==
  \A k, m \in 1..Len(parsed) : k < m => parsed[k].line < parsed[m].line

\* the loops run no more iterations than the text has lines
IterationsBounded == iterations <= Len(lines)

\* C20: the cursor never moves back and grows by at least one on every
\* iteration of the three loops that completes, so a call runs no more
\* iterations than there are lines and parseList terminates; every line is
\* parsed at most once and never in both sections.
C20_CursorAdvancesAndTerminates ==
  /\ [][pointer' >= pointer]_vars
  /\ [][(LoopIteration /\ pc' # "thrown") => pointer' >= pointer + 1]_vars
  /\ []IterationsBounded
  /\ []ParsedAscending

\* a call returned after parsing lines in both sections of a text in which
\* a blank line stands inside the available section
C20_Witness ==
  /\ Returned
  /\ \E k \in 1..Len(parsed) : parsed[k].section = "installed"
  /\ \E k \in 1..Len(parsed) : parsed[k].section = "available"
  /\ \E i \in AvailableFrom..(Len(lines) - 1) : lines[i + 1] = EMPTY

====
